---- MODULE Spec2Model ----
(***************************************************************************)
(* A model of the Shelf pattern store: the file-backed PatternStore         *)
(* (patternStore.ts), the relational PatternStore (patternStorePostgres.ts) *)
(* and the PatternExtractor (patternExtractor.ts).                          *)
(*                                                                          *)
(* Conventions                                                              *)
(*  - Strings are TLA+ strings, handled character by character (Len,        *)
(*    SubSeq, \o), so toLowerCase, includes, split and replace are computed *)
(*    as the code computes them.                                            *)
(*  - A confidence is an integer number of 1/Scale; Scale = 300 makes every *)
(*    hundredth and every success rate s/n with n <= 3 exact.  Binary       *)
(*    floating point error of the JavaScript additions is not modelled.     *)
(*  - A Date is an integer number of clock ticks; an absent optional Date   *)
(*    (undefined / NULL) is NoDate.                                         *)
(*  - A JavaScript Map is a sequence of records with distinct ids, in       *)
(*    insertion order.                                                      *)
(*  - A value "Pattern | undefined" is a sequence of 0 or 1 patterns.       *)
(***************************************************************************)
EXTENDS Integers, Sequences, FiniteSets, TLC

\* ---------------------------------------------------------------- bounds
\* The clock takes the values 0..MaxTime.
MaxTime == 1
\* At most MaxOps calls are issued to the store in one behaviour.
MaxOps == 3
\* extractPattern is called on its own with at most MaxEpisodes episodes.
MaxEpisodes == 3
MaxReinforcements == 50

\* ---------------------------------------------------------------- numbers
Scale == 3 * 100
Hundredth == Scale \div 100

NoDate == 0 - 1

Min(a, b) == IF a <= b THEN a ELSE b
Max(a, b) == IF a >= b THEN a ELSE b

\* Math.max(0.1, ...) and GREATEST(0.1, ...)
MinConfidence == 10 * Hundredth
\* Math.min(1.0, ...) and LEAST(1.0, ...)
MaxConfidence == 100 * Hundredth
\* A variant of Adjustment that lowers by as much as it raises
Adjustment_symmetric(success) == IF success THEN 5 * Hundredth ELSE 0 - 5 * Hundredth
\* success ? 0.05 : -0.02
Adjustment(success) == IF success THEN 5 * Hundredth ELSE 0 - 2 * Hundredth

\* The value a DECIMAL(3,2) column keeps of c: rounded to the nearest hundredth.
Decimal32(c) == ((2 * c + Hundredth) \div (2 * Hundredth)) * Hundredth
\* CHECK (confidence >= 0 AND confidence <= 1)
ConfidenceCheck(c) == c >= 0 /\ c <= Scale

\* ---------------------------------------------------------------- strings
UpperChars == "ABCDEFGHIJKLMNOPQRSTUVWXYZ"
LowerChars == "abcdefghijklmnopqrstuvwxyz"
DigitChars == "0123456789"

\* The characters of a string, as a set of one-character strings
CharsOf(alphabet) == {SubSeq(alphabet, i, i) : i \in 1..Len(alphabet)}

\* The lower-case letter of each upper-case letter
LowerOfUpper ==
  [c \in CharsOf(UpperChars) |->
     LET i == CHOOSE k \in 1..Len(UpperChars) : SubSeq(UpperChars, k, k) = c
     IN  SubSeq(LowerChars, i, i)]

LowerChar(c) == IF c \in DOMAIN LowerOfUpper THEN LowerOfUpper[c] ELSE c

RECURSIVE LowerFrom(_, _)
LowerFrom(s, i) ==
  IF i > Len(s) THEN "" ELSE LowerChar(SubSeq(s, i, i)) \o LowerFrom(s, i + 1)

\* String.prototype.toLowerCase
ToLowerCase(s) == LowerFrom(s, 1)

\* String.prototype.includes
Includes(s, t) ==
  \E i \in 1..(Len(s) - Len(t) + 1) : SubSeq(s, i, i + Len(t) - 1) = t

\* \s of a regular expression, for the characters the model's texts use
IsSpace(c) == c = " "

\* s.split(/\s+/): the pieces between maximal runs of white space; a leading or
\* trailing run leaves an empty first or last piece, and "" splits to <<"">>.
RECURSIVE SplitFrom(_, _, _)
SplitFrom(s, i, cur) ==
  IF i > Len(s) THEN <<cur>>
  ELSE IF IsSpace(SubSeq(s, i, i))
       THEN IF i > 1 /\ IsSpace(SubSeq(s, i - 1, i - 1))
            THEN SplitFrom(s, i + 1, cur)
            ELSE <<cur>> \o SplitFrom(s, i + 1, "")
       ELSE SplitFrom(s, i + 1, cur \o SubSeq(s, i, i))
SplitWhitespace(s) == SplitFrom(s, 1, "")

\* Array.prototype.join
RECURSIVE Join(_, _)
Join(parts, sep) ==
  IF Len(parts) = 0 THEN ""
  ELSE IF Len(parts) = 1 THEN parts[1]
  ELSE parts[1] \o sep \o Join(Tail(parts), sep)

\* name.toLowerCase().replace(/\s+/g, '-').replace(/[^a-z0-9-]/g, '')
RECURSIVE HyphenateSpaces(_, _)
HyphenateSpaces(s, i) ==
  IF i > Len(s) THEN ""
  ELSE IF IsSpace(SubSeq(s, i, i))
       THEN (IF i > 1 /\ IsSpace(SubSeq(s, i - 1, i - 1)) THEN "" ELSE "-")
            \o HyphenateSpaces(s, i + 1)
       ELSE SubSeq(s, i, i) \o HyphenateSpaces(s, i + 1)

\* The characters /[^a-z0-9-]/ does not match
IdChars == CharsOf(LowerChars) \cup CharsOf(DigitChars) \cup {"-"}

RECURSIVE StripNonIdChars(_, _)
StripNonIdChars(s, i) ==
  IF i > Len(s) THEN ""
  ELSE (IF SubSeq(s, i, i) \in IdChars THEN SubSeq(s, i, i) ELSE "")
       \o StripNonIdChars(s, i + 1)

generatePatternId(name) == StripNonIdChars(HyphenateSpaces(ToLowerCase(name), 1), 1)

\* ---------------------------------------------------------------- sequences
Range(seq) == {seq[i] : i \in 1..Len(seq)}

\* Map.prototype.has / get / set on a sequence of records keyed by their id
MapHas(m, id) == \E i \in 1..Len(m) : m[i].id = id
MapIndex(m, id) == CHOOSE i \in 1..Len(m) : m[i].id = id
\* Map.get as a sequence of 0 or 1 values
MapGet(m, id) == IF MapHas(m, id) THEN <<m[MapIndex(m, id)]>> ELSE <<>>
\* Map.set keeps the position of a key it already holds and appends a new key
MapSet(m, v) ==
  IF MapHas(m, v.id) THEN [m EXCEPT ![MapIndex(m, v.id)] = v] ELSE Append(m, v)
MapKeys(m) == {m[i].id : i \in 1..Len(m)}

\* ---------------------------------------------------------------- data
\* initializeWithSamplePatterns: the two sample patterns, created at time t
SamplePatterns(t) ==
  << [ id |-> "progressive-disclosure",
       name |-> "Progressive Disclosure",
       context |-> <<"user is learning", "complex topic", "beginner level">>,
       problem |-> "Too much information at once overwhelms the learner",
       solution |-> "Reveal complexity gradually, starting with core concepts",
       examples |-> << [ input |-> "Explain recursion",
                         output |-> "Start with simple counting down, then factorial, then tree traversal",
                         outcome |-> "success" ] >>,
       relations |-> <<>>,
       confidence |-> 85 * Hundredth,
       usageCount |-> 0,
       createdAt |-> t,
       lastUsedAt |-> NoDate ],
     [ id |-> "concrete-before-abstract",
       name |-> "Concrete Before Abstract",
       context |-> <<"teaching concept", "abstract idea", "user struggling">>,
       problem |-> "Abstract concepts are hard to grasp without grounding",
       solution |-> "Provide concrete examples before explaining the abstraction",
       examples |-> << [ input |-> "Explain interfaces",
                         output |-> "Show USB ports, electrical outlets, then programming interfaces",
                         outcome |-> "success" ] >>,
       relations |-> << [ type |-> "leads_to",
                          patternId |-> "progressive-disclosure",
                          strength |-> 70 * Hundredth ] >>,
       confidence |-> 90 * Hundredth,
       usageCount |-> 0,
       createdAt |-> t,
       lastUsedAt |-> NoDate ] >>

\* The pattern a caller constructs at time t and saves (testPatternStore, test 5)
newPattern(t) ==
  [ id |-> "checkpoint-proceed",
    name |-> "Checkpoint and Proceed",
    context |-> <<"multi-step process", "complex task", "verification needed">>,
    problem |-> "User may get lost in complex multi-step processes",
    solution |-> "Pause at key points to verify understanding before continuing",
    examples |-> << [ input |-> "Setting up development environment",
                      output |-> "After each tool install, verify it works before next step",
                      outcome |-> "success" ] >>,
    relations |-> <<>>,
    confidence |-> 75 * Hundredth,
    usageCount |-> 0,
    createdAt |-> t,
    lastUsedAt |-> NoDate ]

\* The episodes callers save, each with the timestamp t its caller gave it: one of
\* testPatternExtraction, whose outcome reads as a success, one whose outcome
\* reads as a failure and one whose outcome reads as neither; the context of
\* the second contains the context of the third
EpisodeInputs(t) ==
  { [ id |-> "ep-debug-1", timestamp |-> t,
      context |-> "User trying to debug a null pointer error",
      actions |-> <<"Ask for the error message", "Check variable initialization",
                    "Add null checks", "Test the fix">>,
      outcome |-> "Error resolved successfully",
      patternIds |-> <<>> ],
    [ id |-> "ep-teach-2", timestamp |-> t,
      context |-> "User asked about complex task again",
      actions |-> <<"Begin with synchronous code", "Explain asynchronous need">>,
      outcome |-> "User still stuck",
      patternIds |-> <<"progressive-disclosure">> ],
    [ id |-> "ep-teach-3", timestamp |-> t,
      context |-> "User asked about complex task",
      actions |-> <<"Begin with synchronous code", "Explain asynchronous need">>,
      outcome |-> "Needs a follow-up",
      patternIds |-> <<>> ] }

\* The ids callers pass to getPattern, to applyPattern and to reinforcePattern
GetIdInputs == {"checkpoint-proceed", "no-such-pattern"}
ApplyIdInputs == {"progressive-disclosure", "checkpoint-proceed", "no-such-pattern"}
ReinforceIdInputs == {"progressive-disclosure", "concrete-before-abstract", "no-such-pattern"}

\* The queries callers pass to searchPatterns (the first is that of
\* testPatternStore, test 2; the second meets a context of each seed), and the
\* query and limit they pass to findSimilarEpisodes
SearchInputs ==
  {"user is learning something new", "an abstract idea while the user is learning"}
SimilarInputs == {"User asked about complex task"}
LimitInputs == {2}

\* The episode id lists, the name and the problem statement callers pass to
\* extractPatternFromEpisodes; the name yields the id "checkpoint-proceed"
EpisodeIdListInputs ==
  { <<"ep-debug-1", "ep-teach-2">>, <<"ep-teach-2", "ep-teach-3">>,
    <<"ep-debug-1", "no-such-episode">> }
PatternNameInputs == {"Checkpoint Proceed"}
ProblemStatementInput == "User may get lost in complex multi-step processes"

\* ---------------------------------------------------------------- extractor
\* The keys of a Map filled by successive set calls: first occurrences, in order
RECURSIVE FirstOccurrences(_)
FirstOccurrences(seq) ==
  IF Len(seq) = 0 THEN <<>>
  ELSE LET front == FirstOccurrences(SubSeq(seq, 1, Len(seq) - 1))
           x == seq[Len(seq)]
       IN  IF x \in Range(front) THEN front ELSE Append(front, x)

\* The value the Map holds for key x after counts.set(x, (counts.get(x) || 0) + 1)
\* for every element of seq
Occurrences(seq, x) == Cardinality({i \in 1..Len(seq) : seq[i] = x})

RECURSIVE Flatten(_)
Flatten(seqs) ==
  IF Len(seqs) = 0 THEN <<>> ELSE Head(seqs) \o Flatten(Tail(seqs))

Take(seq, n) == SubSeq(seq, 1, Min(n, Len(seq)))

\* The words of an episode context that extractPattern counts
ContextWords(ep) ==
  LET IsLong(w) == Len(w) > 3
  IN  SelectSeq(SplitWhitespace(ToLowerCase(ep.context)), IsLong)

\* A variant of commonContext that keeps the first word only
commonContext_firstOnly(eps) ==
  LET words == Flatten([i \in 1..Len(eps) |-> ContextWords(eps[i])])
      Common(w) == 2 * Occurrences(words, w) >= Len(eps)
  IN  Take(SelectSeq(FirstOccurrences(words), Common), 1)
\* extractPattern, lines 12-28: the words whose count reaches half the number of
\* episodes, in the order of the Map, at most 5
commonContext(eps) ==
  LET words == Flatten([i \in 1..Len(eps) |-> ContextWords(eps[i])])
      Common(w) == 2 * Occurrences(words, w) >= Len(eps)
  IN  Take(SelectSeq(FirstOccurrences(words), Common), 5)

\* The arrow of the action sequences and of the example outputs is written "->"
Arrow == " -> "

\* The 2-action sequences of one episode
ActionPairs(ep) ==
  [i \in 1..(Len(ep.actions) - 1) |-> ep.actions[i] \o Arrow \o ep.actions[i + 1]]

findCommonActionPatterns(eps) ==
  LET pairs == Flatten([i \in 1..Len(eps) |-> ActionPairs(eps[i])])
      Common(q) == 10 * Occurrences(pairs, q) >= 3 * Len(eps)
  IN  Take(SelectSeq(FirstOccurrences(pairs), Common), 3)

categorizeOutcome(outcome) ==
  LET lower == ToLowerCase(outcome)
  IN  IF \/ Includes(lower, "success") \/ Includes(lower, "understood")
         \/ Includes(lower, "completed") \/ Includes(lower, "solved")
      THEN "success"
      ELSE IF \/ Includes(lower, "fail") \/ Includes(lower, "error")
              \/ Includes(lower, "confused") \/ Includes(lower, "stuck")
           THEN "failure"
           ELSE "partial"

IsSuccess(ep) == categorizeOutcome(ep.outcome) = "success"

generateSolution(actionPatterns, eps) ==
  IF Len(actionPatterns) > 0
  THEN "Apply the following action sequence: " \o actionPatterns[1]
  ELSE LET successfulEpisodes == SelectSeq(eps, IsSuccess)
       IN  IF Len(successfulEpisodes) > 0
           THEN "Follow approach: " \o Join(successfulEpisodes[1].actions, ", then ")
           ELSE "Analyze the context and apply appropriate actions based on examples"

ExampleOf(ep) ==
  [ input |-> ep.context,
    output |-> Join(ep.actions, Arrow),
    outcome |-> categorizeOutcome(ep.outcome) ]

\* A variant of InitialConfidence without the cap of 0.9
InitialConfidence_uncapped(eps) == (Len(SelectSeq(eps, IsSuccess)) * Scale) \div Len(eps)
\* Math.min(0.9, successes / episodes.length)
InitialConfidence(eps) ==
  Min(90 * Hundredth, (Len(SelectSeq(eps, IsSuccess)) * Scale) \div Len(eps))

\* A variant of extractPattern that asks for one episode only
extractPattern_fromOne(eps, name, problemStatement, t) ==
  IF Len(eps) < 1 THEN <<>>
  ELSE << [ id |-> generatePatternId(name),
            name |-> name,
            context |-> IF Len(commonContext(eps)) > 0 THEN commonContext(eps)
                        ELSE <<"general">>,
            problem |-> problemStatement,
            solution |-> generateSolution(findCommonActionPatterns(eps), eps),
            examples |-> [i \in 1..Min(3, Len(eps)) |-> ExampleOf(eps[i])],
            relations |-> <<>>,
            confidence |-> InitialConfidence(eps),
            usageCount |-> 0,
            createdAt |-> t,
            lastUsedAt |-> NoDate ] >>

\* extractPattern at time t: a sequence of 0 (null) or 1 pattern
extractPattern(eps, name, problemStatement, t) ==
  IF Len(eps) < 2 THEN <<>>
  ELSE LET cc == commonContext(eps)
       IN << [ id |-> generatePatternId(name),
               name |-> name,
               context |-> IF Len(cc) > 0 THEN cc ELSE <<"general">>,
               problem |-> problemStatement,
               solution |-> generateSolution(findCommonActionPatterns(eps), eps),
               examples |-> [i \in 1..Min(3, Len(eps)) |-> ExampleOf(eps[i])],
               relations |-> <<>>,
               confidence |-> InitialConfidence(eps),
               usageCount |-> 0,
               createdAt |-> t,
               lastUsedAt |-> NoDate ] >>

\* A variant of ContextOverlap that tests c.includes(oc) only
ContextOverlap_containingOnly(pattern, other) ==
  \E i \in 1..Len(pattern.context) : \E j \in 1..Len(other.context) :
     Includes(pattern.context[i], other.context[j])
\* Whether some context of pattern contains or is contained in a context of other
ContextOverlap(pattern, other) ==
  \E i \in 1..Len(pattern.context) : \E j \in 1..Len(other.context) :
     \/ Includes(other.context[j], pattern.context[i])
     \/ Includes(pattern.context[i], other.context[j])

\* findRelatedPatterns: the ids, in the order of allPatterns
findRelatedPatterns(pattern, allPatterns) ==
  LET Related(other) == other.id # pattern.id /\ ContextOverlap(pattern, other)
      related == SelectSeq(allPatterns, Related)
  IN  [i \in 1..Len(related) |-> related[i].id]

\* The relations extractPatternFromEpisodes attaches
LeadsTo(relatedIds) ==
  [i \in 1..Len(relatedIds) |->
     [type |-> "leads_to", patternId |-> relatedIds[i], strength |-> 50 * Hundredth]]

\* ---------------------------------------------------------------- search
\* Array.prototype.sort((a, b) => b.k - a.k) on a sequence of [k, v]: descending
\* by k, elements of equal k in their original order
InsertDesc(sorted, x) ==
  LET before == {i \in 1..Len(sorted) : sorted[i].k >= x.k}
      n == IF before = {} THEN 0 ELSE CHOOSE i \in before : \A j \in before : j <= i
  IN  SubSeq(sorted, 1, n) \o <<x>> \o SubSeq(sorted, n + 1, Len(sorted))

RECURSIVE SortDesc(_)
SortDesc(seq) ==
  IF Len(seq) = 0 THEN <<>>
  ELSE InsertDesc(SortDesc(SubSeq(seq, 1, Len(seq) - 1)), seq[Len(seq)])

\* A relevance is a number of 1/(10 * Scale): tenths of a score times a confidence
RelevanceOne == 10 * Scale

\* The contexts of pattern that the lower-cased query contains
MatchedContexts(pattern, contextLower) ==
  LET Matches(patternContext) == Includes(contextLower, ToLowerCase(patternContext))
  IN  SelectSeq(pattern.context, Matches)

\* A variant of Relevance that leaves out relevance *= pattern.confidence
Relevance_unweighted(pattern, contextLower, matchedContexts) ==
  ( 3 * Len(matchedContexts)
    + (IF Includes(contextLower, ToLowerCase(pattern.name)) THEN 2 ELSE 0)
    + (IF \/ Includes(ToLowerCase(pattern.problem), contextLower)
          \/ Includes(contextLower, ToLowerCase(pattern.problem))
       THEN 2 ELSE 0) ) * Scale

\* searchPatterns, lines 226-249: the relevance of one pattern before Math.min,
\* given the contexts that matched
Relevance(pattern, contextLower, matchedContexts) ==
  LET problemLower == ToLowerCase(pattern.problem)
  IN  ( 3 * Len(matchedContexts)
        + (IF Includes(contextLower, ToLowerCase(pattern.name)) THEN 2 ELSE 0)
        + (IF \/ Includes(problemLower, contextLower)
              \/ Includes(contextLower, problemLower)
           THEN 2 ELSE 0) ) * pattern.confidence

\* The entry of one pattern, with its relevance before Math.min as k
SearchResult(pattern, contextLower) ==
  LET matchedContexts == MatchedContexts(pattern, contextLower)
      relevance == Relevance(pattern, contextLower, matchedContexts)
  IN  [ k |-> relevance,
        v |-> [ pattern |-> pattern,
                relevance |-> Min(relevance, RelevanceOne),
                reason |-> IF Len(matchedContexts) > 0
                           THEN "Matches contexts: " \o Join(matchedContexts, ", ")
                           ELSE "Partial match on name or problem" ] ]

\* searchPatterns over the patterns in the order the store enumerates them
searchPatterns(all, context) ==
  LET contextLower == ToLowerCase(context)
      scored == [i \in 1..Len(all) |-> SearchResult(all[i], contextLower)]
      Relevant(item) == item.k > 0
      hits == SelectSeq(scored, Relevant)
      results == [i \in 1..Len(hits) |-> [k |-> hits[i].v.relevance, v |-> hits[i].v]]
      sorted == SortDesc(results)
  IN  [i \in 1..Len(sorted) |-> sorted[i].v]

\* findSimilarEpisodes of patternStore.ts: the score of one episode, in tenths
SimilarityScore(episode, context) ==
  LET contextLower == ToLowerCase(context)
      episodeContextLower == ToLowerCase(episode.context)
      contextWords == Range(SplitWhitespace(contextLower))
      episodeWords == Range(SplitWhitespace(episodeContextLower))
  IN  (IF \/ Includes(episodeContextLower, contextLower)
          \/ Includes(contextLower, episodeContextLower)
       THEN 5 ELSE 0)
      + Cardinality(contextWords \cap episodeWords)

findSimilarEpisodes(all, context, limit) ==
  LET scored == [i \in 1..Len(all) |-> [k |-> SimilarityScore(all[i], context), v |-> all[i]]]
      top == Take(SortDesc(scored), limit)
      Positive(item) == item.k > 0
      kept == SelectSeq(top, Positive)
  IN  [i \in 1..Len(kept) |-> kept[i].v]

\* s LIKE pattern: % matches any string, _ any character
RECURSIVE Like(_, _)
Like(str, pat) ==
  IF Len(pat) = 0 THEN Len(str) = 0
  ELSE IF SubSeq(pat, 1, 1) = "%"
       THEN \/ Like(str, SubSeq(pat, 2, Len(pat)))
            \/ Len(str) > 0 /\ Like(SubSeq(str, 2, Len(str)), pat)
       ELSE /\ Len(str) > 0
            /\ SubSeq(pat, 1, 1) \in {"_", SubSeq(str, 1, 1)}
            /\ Like(SubSeq(str, 2, Len(str)), SubSeq(pat, 2, Len(pat)))

\* ---------------------------------------------------------------- state
VARIABLES
  backend,        \* "file": patternStore.ts; "pg": patternStorePostgres.ts
  instance,       \* how the store instance in use was obtained: "none" before
                  \* any, "create" by PatternStore.create(), "bare" by new PatternStore()
  now,            \* the clock read by new Date() and CURRENT_TIMESTAMP
  nOps,           \* the number of calls issued to the store so far
  patterns,       \* file-backed instance: this.patterns
  episodes,       \* file-backed instance: this.episodes
  patternsFile,   \* data/patterns.json: [exists, data]
  episodesFile,   \* data/episodes.json: [exists, data]
  patternsTable,  \* table patterns: a set of rows
  episodesTable,  \* table episodes: a set of rows
  storage,        \* whether durable storage serves reads and writes: "ok", or
                  \* "failing" (the data directory or the database is out of reach)
  inFlight,       \* file-backed instance: the fs.writeFile calls of saveToDisk that
                  \* have been started and have not completed: [file, data]
  started,        \* the updating calls started while calls may overlap, in order
  patternFiles,   \* ~/.shelf/patterns: file name |-> [exists, data]
  last            \* the last call: its name, arguments and result

vars ==
  << backend, instance, now, nOps, patterns, episodes, patternsFile, episodesFile,
     patternsTable, episodesTable, storage, inFlight, started,
     patternFiles, last >>

\* The conditions the store runs under
envVars == << storage, inFlight, started, patternFiles >>

fileVars == << patterns, episodes, patternsFile, episodesFile >>
pgVars == << patternsTable, episodesTable >>

\* ---------------------------------------------------------------- JSON files
\* Date.prototype.toJSON and new Date(string)
toISOString(d) == [iso |-> d]
NewDate(s) == s.iso

\* JSON.stringify of a pattern: Dates become strings, an undefined lastUsedAt
\* leaves no key
PatternToJSON(p) ==
  LET keys == IF p.lastUsedAt = NoDate THEN DOMAIN p \ {"lastUsedAt"} ELSE DOMAIN p
  IN  [k \in keys |-> IF k \in {"createdAt", "lastUsedAt"} THEN toISOString(p[k]) ELSE p[k]]

\* loadFromDisk, lines 125-128
PatternFromJSON(j) ==
  [k \in DOMAIN j \cup {"lastUsedAt"} |->
     IF k = "createdAt" THEN NewDate(j.createdAt)
     ELSE IF k = "lastUsedAt"
          THEN (IF "lastUsedAt" \in DOMAIN j THEN NewDate(j.lastUsedAt) ELSE NoDate)
          ELSE j[k]]

EpisodeToJSON(e) == [e EXCEPT !.timestamp = toISOString(e.timestamp)]
\* loadFromDisk, lines 138-141
EpisodeFromJSON(j) == [j EXCEPT !.timestamp = NewDate(j.timestamp)]

AbsentFile == [exists |-> FALSE, data |-> <<>>]

\* The files of ~/.shelf/patterns that the categories callers pass name, and
\* that directory with none of them in it
ShelfFilenames == {"webhooks.md", "caching.md", "example.md"}
NoPatternFile == [exists |-> FALSE, data |-> ""]
NoPatternFiles == [f \in ShelfFilenames |-> NoPatternFile]

\* saveToDisk: both files are rewritten from the instance's Maps
WrittenPatternsFile(m) ==
  [exists |-> TRUE, data |-> [i \in 1..Len(m) |-> PatternToJSON(m[i])]]
WrittenEpisodesFile(m) ==
  [exists |-> TRUE, data |-> [i \in 1..Len(m) |-> EpisodeToJSON(m[i])]]

\* A failed write is caught and logged (lines 157-159): the files stay as they are
saveToDisk(newPatterns, newEpisodes) ==
  IF storage = "ok"
  THEN /\ patternsFile' = WrittenPatternsFile(newPatterns)
       /\ episodesFile' = WrittenEpisodesFile(newEpisodes)
  ELSE UNCHANGED << patternsFile, episodesFile >>

\* new Map(array.map(p => [p.id, ...])): a later entry of the same id replaces
\* the value of the earlier one and keeps its place
RECURSIVE MapOf(_)
MapOf(entries) ==
  IF Len(entries) = 0 THEN <<>>
  ELSE MapSet(MapOf(SubSeq(entries, 1, Len(entries) - 1)), entries[Len(entries)])

\* loadFromDisk: the Maps of a fresh instance after loading; an absent file
\* leaves the empty Map
LoadedPatterns ==
  IF patternsFile.exists
  THEN MapOf([i \in 1..Len(patternsFile.data) |-> PatternFromJSON(patternsFile.data[i])])
  ELSE <<>>
LoadedEpisodes ==
  IF episodesFile.exists
  THEN MapOf([i \in 1..Len(episodesFile.data) |-> EpisodeFromJSON(episodesFile.data[i])])
  ELSE <<>>

\* What loadFromDisk leaves in the Maps: a failed read is caught like an absent
\* file (lines 129-132 and 142-145)
ReadPatterns == IF storage = "ok" THEN LoadedPatterns ELSE <<>>
ReadEpisodes == IF storage = "ok" THEN LoadedEpisodes ELSE <<>>

\* ---------------------------------------------------------------- tables
\* The row savePattern inserts
PatternRow(p) ==
  [ id |-> p.id, name |-> p.name, context |-> p.context, problem |-> p.problem,
    solution |-> p.solution, examples |-> p.examples, relations |-> p.relations,
    confidence |-> Decimal32(p.confidence), usage_count |-> p.usageCount,
    created_at |-> p.createdAt, last_used_at |-> p.lastUsedAt ]

rowToPattern(row) ==
  [ id |-> row.id, name |-> row.name, context |-> row.context, problem |-> row.problem,
    solution |-> row.solution, examples |-> row.examples, relations |-> row.relations,
    confidence |-> row.confidence, usageCount |-> row.usage_count,
    createdAt |-> row.created_at, lastUsedAt |-> row.last_used_at ]

EpisodeRow(e) ==
  [ id |-> e.id, timestamp |-> e.timestamp, context |-> e.context,
    actions |-> e.actions, outcome |-> e.outcome, pattern_ids |-> e.patternIds ]

rowToEpisode(row) ==
  [ id |-> row.id, timestamp |-> row.timestamp, context |-> row.context,
    actions |-> row.actions, outcome |-> row.outcome, patternIds |-> row.pattern_ids ]

\* INSERT ... ON CONFLICT (id) DO UPDATE SET every column but id and created_at
UpsertPattern(table, p) ==
  LET new == PatternRow(p)
      old == {r \in table : r.id = p.id}
  IN  (table \ old)
        \cup (IF old = {} THEN {new}
              ELSE {[new EXCEPT !.created_at = r.created_at] : r \in old})

\* A variant of UpsertEpisode that replaces the rows of the table
UpsertEpisode_replacing(table, e) == {EpisodeRow(e)}
\* INSERT ... ON CONFLICT (id) DO UPDATE SET every column but id
UpsertEpisode(table, e) == {r \in table : r.id # e.id} \cup {EpisodeRow(e)}

\* The orders in which a query may return the rows of a set: all of them
Orderings(rows) ==
  LET n == Cardinality(rows)
  IN  {f \in [1..n -> rows] : \A i, j \in 1..n : i # j => f[i] # f[j]}

\* ---------------------------------------------------------------- the store
\* The patterns and episodes the instance in use holds, as sets
StoredPatterns ==
  IF backend = "file" THEN Range(patterns) ELSE {rowToPattern(r) : r \in patternsTable}
StoredEpisodes ==
  IF backend = "file" THEN Range(episodes) ELSE {rowToEpisode(r) : r \in episodesTable}
StoredPatternIds == {p.id : p \in StoredPatterns}
StoredEpisodeIds == {e.id : e \in StoredEpisodes}
\* The patterns and episodes in durable storage, as sets
DurablePatterns ==
  IF backend = "file" THEN Range(LoadedPatterns) ELSE {rowToPattern(r) : r \in patternsTable}
DurableEpisodes ==
  IF backend = "file" THEN Range(LoadedEpisodes) ELSE {rowToEpisode(r) : r \in episodesTable}

\* The record of a call
Call(op, id, success, ids, name, ret) ==
  [op |-> op, id |-> id, success |-> success, ids |-> ids, name |-> name, ret |-> ret]

Init ==
  /\ backend \in {"file", "pg"}
  /\ instance = "none"
  /\ now = 0
  /\ nOps = 0
  /\ patterns = <<>>
  /\ episodes = <<>>
  /\ patternsFile = AbsentFile
  /\ episodesFile = AbsentFile
  /\ patternsTable = {}
  /\ episodesTable = {}
  /\ storage = "ok"
  /\ inFlight = {}
  /\ started = <<>>
  /\ patternFiles = NoPatternFiles
  /\ last = Call("none", "", FALSE, <<>>, "", <<>>)

Tick ==
  /\ now < MaxTime
  /\ now' = now + 1
  /\ UNCHANGED << backend, envVars, instance, nOps, fileVars, pgVars, last >>

Issued == nOps' = nOps + 1
FileInUse == backend = "file" /\ instance # "none"
PgInUse == backend = "pg" /\ instance = "create" /\ storage = "ok"

\* ---------------------------------------------------------------- patternStore.ts
\* initializeWithSamplePatterns: this.patterns.set for each sample
initializeWithSamplePatterns_file(m, t) ==
  MapSet(MapSet(m, SamplePatterns(t)[1]), SamplePatterns(t)[2])

\* PatternStore.create(): a fresh instance, then initialize()
create_file ==
  /\ backend = "file"
  /\ instance' = "create"
  /\ episodes' = ReadEpisodes
  /\ IF Len(ReadPatterns) = 0
     THEN /\ patterns' = initializeWithSamplePatterns_file(ReadPatterns, now)
          /\ saveToDisk(patterns', episodes')
     ELSE /\ patterns' = ReadPatterns
          /\ UNCHANGED << patternsFile, episodesFile >>
  /\ last' = Call("create", "", FALSE, <<>>, "", <<>>)
  /\ UNCHANGED << backend, envVars, now, nOps, pgVars >>

\* new PatternStore(), as createStatelessServer and testPatternExtraction obtain
\* their store: a fresh instance that is not initialized
new_file ==
  /\ backend = "file"
  /\ instance' = "bare"
  /\ patterns' = <<>>
  /\ episodes' = <<>>
  /\ last' = Call("new", "", FALSE, <<>>, "", <<>>)
  /\ UNCHANGED << backend, envVars, now, nOps, patternsFile, episodesFile, pgVars >>

savePattern_file(p) ==
  /\ FileInUse /\ Issued
  /\ patterns' = MapSet(patterns, p)
  /\ saveToDisk(patterns', episodes)
  /\ last' = Call("savePattern", p.id, FALSE, <<>>, "", <<>>)
  /\ UNCHANGED << backend, envVars, instance, now, episodes, pgVars >>

getPattern_file(id) ==
  /\ FileInUse /\ Issued
  /\ last' = Call("getPattern", id, FALSE, <<>>, "", MapGet(patterns, id))
  /\ UNCHANGED << backend, envVars, instance, now, fileVars, pgVars >>

getAllPatterns_file ==
  /\ FileInUse /\ Issued
  /\ last' = Call("getAllPatterns", "", FALSE, <<>>, "", patterns)
  /\ UNCHANGED << backend, envVars, instance, now, fileVars, pgVars >>

searchPatterns_file(context) ==
  /\ FileInUse /\ Issued
  /\ last' = Call("searchPatterns", "", FALSE, <<>>, context, searchPatterns(patterns, context))
  /\ UNCHANGED << backend, envVars, instance, now, fileVars, pgVars >>

\* A variant of Applied_file that forgets usageCount++
Applied_file_keepingCount(p, t) == [p EXCEPT !.lastUsedAt = t]
\* pattern.usageCount++; pattern.lastUsedAt = new Date()
Applied_file(p, t) == [p EXCEPT !.usageCount = @ + 1, !.lastUsedAt = t]

\* A variant of applyPattern_file that writes the files for an unknown id too
applyPattern_file_alwaysSaving(patternId) ==
  /\ FileInUse /\ Issued
  /\ patterns' = IF MapHas(patterns, patternId)
                 THEN MapSet(patterns, Applied_file(MapGet(patterns, patternId)[1], now))
                 ELSE patterns
  /\ saveToDisk(patterns', episodes)
  /\ last' = Call("applyPattern", patternId, FALSE, <<>>, "", MapGet(patterns', patternId))
  /\ UNCHANGED << backend, envVars, instance, now, episodes, pgVars >>

applyPattern_file(patternId) ==
  /\ FileInUse /\ Issued
  /\ IF MapHas(patterns, patternId)
     THEN /\ patterns' = MapSet(patterns, Applied_file(MapGet(patterns, patternId)[1], now))
          /\ saveToDisk(patterns', episodes)
     ELSE UNCHANGED << patterns, patternsFile, episodesFile >>
  /\ last' = Call("applyPattern", patternId, FALSE, <<>>, "", MapGet(patterns', patternId))
  /\ UNCHANGED << backend, envVars, instance, now, episodes, pgVars >>

\* A variant of Reinforced_file that refuses the step that reaches a limit
Reinforced_file_halting(p, success) ==
  IF \/ p.confidence + Adjustment(success) >= MaxConfidence
     \/ p.confidence + Adjustment(success) <= MinConfidence
  THEN p
  ELSE [p EXCEPT !.confidence = p.confidence + Adjustment(success)]
\* A variant of Reinforced_file without the clamp
Reinforced_file_unclamped(p, success) ==
  [p EXCEPT !.confidence = p.confidence + Adjustment(success)]
\* Math.max(0.1, Math.min(1.0, pattern.confidence + adjustment))
Reinforced_file(p, success) ==
  [p EXCEPT !.confidence =
     Max(MinConfidence, Min(MaxConfidence, p.confidence + Adjustment(success)))]

reinforcePattern_file(patternId, success) ==
  /\ FileInUse /\ Issued
  /\ IF MapHas(patterns, patternId)
     THEN /\ patterns' = MapSet(patterns, Reinforced_file(MapGet(patterns, patternId)[1], success))
          /\ saveToDisk(patterns', episodes)
     ELSE UNCHANGED << patterns, patternsFile, episodesFile >>
  /\ last' = Call("reinforcePattern", patternId, success, <<>>, "", <<>>)
  /\ UNCHANGED << backend, envVars, instance, now, episodes, pgVars >>

saveEpisode_file(e) ==
  /\ FileInUse /\ Issued
  /\ episodes' = MapSet(episodes, e)
  /\ saveToDisk(patterns, episodes')
  /\ last' = Call("saveEpisode", e.id, FALSE, <<>>, "", <<>>)
  /\ UNCHANGED << backend, envVars, instance, now, patterns, pgVars >>

findSimilarEpisodes_file(context, limit) ==
  /\ FileInUse /\ Issued
  /\ last' = Call("findSimilarEpisodes", "", FALSE, <<>>, context,
                  findSimilarEpisodes(episodes, context, limit))
  /\ UNCHANGED << backend, envVars, instance, now, fileVars, pgVars >>

\* episodeIds.map(id => this.episodes.get(id)).filter(ep => ep !== undefined)
ResolvedEpisodes_file(episodeIds) ==
  Flatten([i \in 1..Len(episodeIds) |-> MapGet(episodes, episodeIds[i])])

\* The pattern extractPatternFromEpisodes returns from the episodes eps when the
\* patterns of the store are enumerated as allPatterns
ExtractedPattern(eps, patternName, allPatterns) ==
  LET found == extractPattern(eps, patternName, ProblemStatementInput, now)
  IN  IF Len(found) = 0 THEN <<>>
      ELSE << [found[1] EXCEPT
                 !.relations = LeadsTo(findRelatedPatterns(found[1], allPatterns))] >>

extractPatternFromEpisodes_file(episodeIds, patternName) ==
  /\ FileInUse /\ Issued
  /\ LET eps == ResolvedEpisodes_file(episodeIds)
         ret == IF Len(eps) < 2 THEN <<>> ELSE ExtractedPattern(eps, patternName, patterns)
     IN  /\ IF Len(ret) = 0
            THEN UNCHANGED << patterns, patternsFile, episodesFile >>
            ELSE /\ patterns' = MapSet(patterns, ret[1])
                 /\ saveToDisk(patterns', episodes)
         /\ last' = Call("extractPatternFromEpisodes", "", FALSE, episodeIds, patternName, ret)
  /\ UNCHANGED << backend, envVars, instance, now, episodes, pgVars >>

\* ---------------------------------------------------------------- patternStorePostgres.ts
\* initializeWithSamplePatterns: savePattern for each sample
initializeWithSamplePatterns_pg(table, t) ==
  UpsertPattern(UpsertPattern(table, SamplePatterns(t)[1]), SamplePatterns(t)[2])

\* A variant of create_pg that saves the samples without counting the rows
create_pg_reseeding ==
  /\ backend = "pg"
  /\ instance' = "create"
  /\ patternsTable' = initializeWithSamplePatterns_pg(patternsTable, now)
  /\ last' = Call("create", "", FALSE, <<>>, "", <<>>)
  /\ UNCHANGED << backend, envVars, now, nOps, fileVars, episodesTable >>

\* PatternStore.create(): db.initialize() leaves the tables in place; the samples
\* are saved when SELECT COUNT(*) FROM patterns is 0
create_pg ==
  /\ backend = "pg" /\ storage = "ok"
  /\ instance' = "create"
  /\ patternsTable' =
       IF Cardinality(patternsTable) = 0
       THEN initializeWithSamplePatterns_pg(patternsTable, now)
       ELSE patternsTable
  /\ last' = Call("create", "", FALSE, <<>>, "", <<>>)
  /\ UNCHANGED << backend, envVars, now, nOps, fileVars, episodesTable >>

\* savePattern: a row that fails the CHECK of the confidence column is refused
\* and the statement's error reaches the caller
savePattern_pg(p) ==
  /\ PgInUse /\ Issued
  /\ IF ConfidenceCheck(Decimal32(p.confidence))
     THEN /\ patternsTable' = UpsertPattern(patternsTable, p)
          /\ last' = Call("savePattern", p.id, FALSE, <<>>, "", <<>>)
     ELSE /\ UNCHANGED patternsTable
          /\ last' = Call("savePattern threw", p.id, FALSE, <<>>, "", <<>>)
  /\ UNCHANGED << backend, envVars, instance, now, fileVars, episodesTable >>

\* SELECT * FROM patterns WHERE id = $1, as a sequence of 0 or 1 patterns
SelectPattern(table, id) ==
  IF \E r \in table : r.id = id
  THEN << rowToPattern(CHOOSE r \in table : r.id = id) >>
  ELSE <<>>

getPattern_pg(id) ==
  /\ PgInUse /\ Issued
  /\ last' = Call("getPattern", id, FALSE, <<>>, "", SelectPattern(patternsTable, id))
  /\ UNCHANGED << backend, envVars, instance, now, fileVars, pgVars >>

\* SELECT * FROM patterns ORDER BY confidence DESC: the results the query may
\* give; rows of equal confidence come in any order
SelectAllPatterns(table) ==
  { [i \in DOMAIN f |-> rowToPattern(f[i])] :
      f \in { g \in Orderings(table) :
                \A i, j \in DOMAIN g : i < j => g[i].confidence >= g[j].confidence } }

getAllPatterns_pg ==
  /\ PgInUse /\ Issued
  /\ \E all \in SelectAllPatterns(patternsTable) :
       last' = Call("getAllPatterns", "", FALSE, <<>>, "", all)
  /\ UNCHANGED << backend, envVars, instance, now, fileVars, pgVars >>

\* searchPatterns: over the result of getAllPatterns
searchPatterns_pg(context) ==
  /\ PgInUse /\ Issued
  /\ \E all \in SelectAllPatterns(patternsTable) :
       last' = Call("searchPatterns", "", FALSE, <<>>, context, searchPatterns(all, context))
  /\ UNCHANGED << backend, envVars, instance, now, fileVars, pgVars >>

\* A variant of Applied_pg that writes back the usage_count it was given
Applied_pg_keepingCount(row, t) == [row EXCEPT !.last_used_at = t]
\* SET usage_count = usage_count + 1, last_used_at = CURRENT_TIMESTAMP
Applied_pg(row, t) == [row EXCEPT !.usage_count = @ + 1, !.last_used_at = t]

applyPattern_pg(patternId) ==
  /\ PgInUse /\ Issued
  /\ patternsTable' =
       {IF r.id = patternId THEN Applied_pg(r, now) ELSE r : r \in patternsTable}
  /\ last' = Call("applyPattern", patternId, FALSE, <<>>, "",
                  SelectPattern(patternsTable', patternId))
  /\ UNCHANGED << backend, envVars, instance, now, fileVars, episodesTable >>

\* A variant of Reinforced_pg that counts the reinforcement as a use
Reinforced_pg_counting(row, success) ==
  [row EXCEPT !.usage_count = @ + 1,
              !.confidence =
     Decimal32(Min(MaxConfidence, Max(MinConfidence, row.confidence + Adjustment(success))))]
\* SET confidence = LEAST(1.0, GREATEST(0.1, confidence + $1))
Reinforced_pg(row, success) ==
  [row EXCEPT !.confidence =
     Decimal32(Min(MaxConfidence, Max(MinConfidence, row.confidence + Adjustment(success))))]

reinforcePattern_pg(patternId, success) ==
  /\ PgInUse /\ Issued
  /\ patternsTable' =
       {IF r.id = patternId THEN Reinforced_pg(r, success) ELSE r : r \in patternsTable}
  /\ last' = Call("reinforcePattern", patternId, success, <<>>, "", <<>>)
  /\ UNCHANGED << backend, envVars, instance, now, fileVars, episodesTable >>

saveEpisode_pg(e) ==
  /\ PgInUse /\ Issued
  /\ episodesTable' = UpsertEpisode(episodesTable, e)
  /\ last' = Call("saveEpisode", e.id, FALSE, <<>>, "", <<>>)
  /\ UNCHANGED << backend, envVars, instance, now, fileVars, patternsTable >>

\* SELECT * FROM episodes WHERE LOWER(context) LIKE $1 OR $2 LIKE LOWER(context)
\* ORDER BY timestamp DESC LIMIT $3, with $1 = $2 = '%' + context.toLowerCase() + '%':
\* the results the query may give; rows of equal timestamp come in any order
SelectSimilarEpisodes(table, context, limit) ==
  LET contextLower == "%" \o ToLowerCase(context) \o "%"
      rows == {r \in table : \/ Like(ToLowerCase(r.context), contextLower)
                             \/ Like(contextLower, ToLowerCase(r.context))}
  IN  { [i \in 1..Min(limit, Cardinality(rows)) |-> rowToEpisode(f[i])] :
          f \in { g \in Orderings(rows) :
                    \A i, j \in DOMAIN g : i < j => g[i].timestamp >= g[j].timestamp } }

findSimilarEpisodes_pg(context, limit) ==
  /\ PgInUse /\ Issued
  /\ \E found \in SelectSimilarEpisodes(episodesTable, context, limit) :
       last' = Call("findSimilarEpisodes", "", FALSE, <<>>, context, found)
  /\ UNCHANGED << backend, envVars, instance, now, fileVars, pgVars >>

\* SELECT * FROM episodes WHERE id = ANY($1): each matching row once, the rows
\* in any order
ResolvedEpisodes_pg(episodeIds) ==
  { [i \in DOMAIN f |-> rowToEpisode(f[i])] :
      f \in Orderings({r \in episodesTable : r.id \in Range(episodeIds)}) }

extractPatternFromEpisodes_pg(episodeIds, patternName) ==
  /\ PgInUse /\ Issued
  /\ \E eps \in ResolvedEpisodes_pg(episodeIds) :
     \E all \in SelectAllPatterns(patternsTable) :
       LET ret == IF Len(eps) < 2 THEN <<>> ELSE ExtractedPattern(eps, patternName, all)
       IN  IF Len(ret) = 0
           THEN /\ UNCHANGED patternsTable
                /\ last' = Call("extractPatternFromEpisodes", "", FALSE,
                                episodeIds, patternName, ret)
           ELSE IF ConfidenceCheck(Decimal32(ret[1].confidence))
                THEN /\ patternsTable' = UpsertPattern(patternsTable, ret[1])
                     /\ last' = Call("extractPatternFromEpisodes", "", FALSE,
                                     episodeIds, patternName, ret)
                ELSE /\ UNCHANGED patternsTable
                     /\ last' = Call("extractPatternFromEpisodes threw", "", FALSE,
                                     episodeIds, patternName, <<>>)
  /\ UNCHANGED << backend, envVars, instance, now, fileVars, episodesTable >>

\* ---------------------------------------------------------------- behaviours
\* Whether another mutating operation may be issued
MayIssue == nOps < MaxOps

Next ==
  \/ Tick
  \/ create_file
  \/ new_file
  \/ MayIssue /\ savePattern_file(newPattern(now))
  \/ MayIssue /\ \E id \in GetIdInputs : getPattern_file(id)
  \/ MayIssue /\ getAllPatterns_file
  \/ MayIssue /\ \E context \in SearchInputs : searchPatterns_file(context)
  \/ MayIssue /\ \E context \in SimilarInputs, limit \in LimitInputs :
                   findSimilarEpisodes_file(context, limit)
  \/ MayIssue /\ \E id \in ApplyIdInputs : applyPattern_file(id)
  \/ MayIssue /\ \E id \in ReinforceIdInputs, success \in BOOLEAN :
                   reinforcePattern_file(id, success)
  \/ MayIssue /\ \E e \in EpisodeInputs(0) : saveEpisode_file(e)
  \/ MayIssue /\ \E ids \in EpisodeIdListInputs, name \in PatternNameInputs :
                   extractPatternFromEpisodes_file(ids, name)
  \/ create_pg
  \/ MayIssue /\ savePattern_pg(newPattern(now))
  \/ MayIssue /\ \E id \in GetIdInputs : getPattern_pg(id)
  \/ MayIssue /\ getAllPatterns_pg
  \/ MayIssue /\ \E context \in SearchInputs : searchPatterns_pg(context)
  \/ MayIssue /\ \E context \in SimilarInputs, limit \in LimitInputs :
                   findSimilarEpisodes_pg(context, limit)
  \/ MayIssue /\ \E id \in ApplyIdInputs : applyPattern_pg(id)
  \/ MayIssue /\ \E id \in ReinforceIdInputs, success \in BOOLEAN :
                   reinforcePattern_pg(id, success)
  \/ MayIssue /\ \E e \in EpisodeInputs(0) : saveEpisode_pg(e)
  \/ MayIssue /\ \E ids \in EpisodeIdListInputs, name \in PatternNameInputs :
                   extractPatternFromEpisodes_pg(ids, name)

Spec == Init /\ [][Next]_vars

\* ---------------------------------------------------------------- failing storage
\* The data directory or the database goes out of reach, and comes back
StorageFails ==
  /\ storage = "ok"
  /\ storage' = "failing"
  /\ UNCHANGED << backend, inFlight, started, patternFiles, instance, now, nOps, fileVars, pgVars, last >>

StorageRecovers ==
  /\ storage = "failing"
  /\ storage' = "ok"
  /\ UNCHANGED << backend, inFlight, started, patternFiles, instance, now, nOps, fileVars, pgVars, last >>

\* PatternStore.create() of patternStorePostgres.ts when db.initialize() fails:
\* the error is logged and thrown again, and the caller gets no instance
create_pg_unreachable ==
  /\ backend = "pg" /\ storage = "failing"
  /\ last' = Call("create threw", "", FALSE, <<>>, "", <<>>)
  /\ UNCHANGED << backend, envVars, instance, now, nOps, fileVars, pgVars >>

\* The operations of patternStorePostgres.ts
PgOperations ==
  { "savePattern", "getPattern", "getAllPatterns", "searchPatterns", "applyPattern",
    "reinforcePattern", "saveEpisode", "findSimilarEpisodes",
    "extractPatternFromEpisodes" }

\* An operation of patternStorePostgres.ts when db.query fails: the error
\* reaches the caller
query_pg_unreachable(op) ==
  /\ backend = "pg" /\ instance = "create" /\ storage = "failing" /\ Issued
  /\ last' = Call(op \o " threw", "", FALSE, <<>>, "", <<>>)
  /\ UNCHANGED << backend, envVars, instance, now, fileVars, pgVars >>

NextFailing ==
  \/ Next
  \/ StorageFails
  \/ StorageRecovers
  \/ create_pg_unreachable
  \/ MayIssue /\ \E op \in PgOperations : query_pg_unreachable(op)

SpecFailing == Init /\ [][NextFailing]_vars

\* ---------------------------------------------------------------- overlapping calls
\* The store after PatternStore.create() on fresh storage
InitOverlap ==
  /\ backend \in {"file", "pg"}
  /\ instance = "create"
  /\ now = 0
  /\ nOps = 0
  /\ patterns = IF backend = "file" THEN initializeWithSamplePatterns_file(<<>>, 0) ELSE <<>>
  /\ episodes = <<>>
  /\ patternsFile = IF backend = "file" THEN WrittenPatternsFile(patterns) ELSE AbsentFile
  /\ episodesFile = IF backend = "file" THEN WrittenEpisodesFile(episodes) ELSE AbsentFile
  /\ patternsTable = IF backend = "pg" THEN initializeWithSamplePatterns_pg({}, 0) ELSE {}
  /\ episodesTable = {}
  /\ storage = "ok"
  /\ inFlight = {}
  /\ started = <<>>
  /\ patternFiles = NoPatternFiles
  /\ last = Call("create", "", FALSE, <<>>, "", <<>>)

\* saveToDisk up to its first await: the patterns are serialised and the write of
\* patterns.json is started
saveToDisk_begin(newPatterns) ==
  inFlight' = inFlight \cup {[file |-> "patterns", data |-> WrittenPatternsFile(newPatterns)]}

\* applyPattern up to "await this.saveToDisk()": the Map's object is updated and
\* the write is started; other calls run before the write completes
applyPattern_file_begin(patternId) ==
  /\ FileInUse /\ Issued
  /\ IF MapHas(patterns, patternId)
     THEN /\ patterns' = MapSet(patterns, Applied_file(MapGet(patterns, patternId)[1], now))
          /\ saveToDisk_begin(patterns')
     ELSE UNCHANGED << patterns, inFlight >>
  /\ started' = Append(started, [op |-> "applyPattern", id |-> patternId, success |-> FALSE])
  /\ last' = Call("applyPattern", patternId, FALSE, <<>>, "", MapGet(patterns', patternId))
  /\ UNCHANGED << backend, storage, patternFiles, instance, now, episodes, patternsFile,
                  episodesFile, pgVars >>

\* reinforcePattern up to "await this.saveToDisk()"
reinforcePattern_file_begin(patternId, success) ==
  /\ FileInUse /\ Issued
  /\ IF MapHas(patterns, patternId)
     THEN /\ patterns' = MapSet(patterns, Reinforced_file(MapGet(patterns, patternId)[1], success))
          /\ saveToDisk_begin(patterns')
     ELSE UNCHANGED << patterns, inFlight >>
  /\ started' = Append(started, [op |-> "reinforcePattern", id |-> patternId, success |-> success])
  /\ last' = Call("reinforcePattern", patternId, success, <<>>, "", <<>>)
  /\ UNCHANGED << backend, storage, patternFiles, instance, now, episodes, patternsFile,
                  episodesFile, pgVars >>

\* A write of patterns.json completes, in whatever order the writes in flight
\* complete; its saveToDisk goes on to serialise the episodes and start the write
\* of episodes.json
writePatterns_done(w) ==
  /\ backend = "file" /\ w.file = "patterns"
  /\ patternsFile' = w.data
  /\ inFlight' = (inFlight \ {w}) \cup {[file |-> "episodes", data |-> WrittenEpisodesFile(episodes)]}
  /\ UNCHANGED << backend, storage, started, patternFiles, instance, now, nOps, patterns, episodes,
                  episodesFile, pgVars, last >>

\* A write of episodes.json completes, and its saveToDisk returns
writeEpisodes_done(w) ==
  /\ backend = "file" /\ w.file = "episodes"
  /\ episodesFile' = w.data
  /\ inFlight' = inFlight \ {w}
  /\ UNCHANGED << backend, storage, started, patternFiles, instance, now, nOps, patterns, episodes,
                  patternsFile, pgVars, last >>

\* applyPattern of patternStorePostgres.ts: its one UPDATE statement, which the
\* database runs atomically whatever other calls are in progress
applyPattern_pg_statement(patternId) ==
  /\ PgInUse /\ Issued
  /\ patternsTable' =
       {IF r.id = patternId THEN Applied_pg(r, now) ELSE r : r \in patternsTable}
  /\ started' = Append(started, [op |-> "applyPattern", id |-> patternId, success |-> FALSE])
  /\ last' = Call("applyPattern", patternId, FALSE, <<>>, "",
                  SelectPattern(patternsTable', patternId))
  /\ UNCHANGED << backend, storage, inFlight, patternFiles, instance, now, fileVars, episodesTable >>

\* reinforcePattern of patternStorePostgres.ts: its one UPDATE statement
reinforcePattern_pg_statement(patternId, success) ==
  /\ PgInUse /\ Issued
  /\ patternsTable' =
       {IF r.id = patternId THEN Reinforced_pg(r, success) ELSE r : r \in patternsTable}
  /\ started' = Append(started, [op |-> "reinforcePattern", id |-> patternId, success |-> success])
  /\ last' = Call("reinforcePattern", patternId, success, <<>>, "", <<>>)
  /\ UNCHANGED << backend, storage, inFlight, patternFiles, instance, now, fileVars, episodesTable >>

NextOverlap ==
  \/ Tick
  \/ MayIssue /\ \E id \in ApplyIdInputs : applyPattern_file_begin(id)
  \/ MayIssue /\ \E id \in ReinforceIdInputs, success \in BOOLEAN :
                   reinforcePattern_file_begin(id, success)
  \/ \E w \in inFlight : writePatterns_done(w)
  \/ \E w \in inFlight : writeEpisodes_done(w)
  \/ MayIssue /\ \E id \in ApplyIdInputs : applyPattern_pg_statement(id)
  \/ MayIssue /\ \E id \in ReinforceIdInputs, success \in BOOLEAN :
                   reinforcePattern_pg_statement(id, success)

SpecOverlap == InitOverlap /\ [][NextOverlap]_vars

\* ---------------------------------------------------------------- callers' objects
\* The Pattern objects the last call handed to its caller
ReturnedPatterns ==
  IF last.op \in {"getPattern", "getAllPatterns", "applyPattern"} THEN last.ret
  ELSE IF last.op = "searchPatterns" THEN [i \in 1..Len(last.ret) |-> last.ret[i].pattern]
  ELSE <<>>

\* The name a caller gives to a Pattern object it received
CallerName == "Renamed by the caller"

\* The caller assigns to a field of a Pattern object that patternStore.ts
\* returned: getPattern returns this.patterns.get(id), getAllPatterns and
\* searchPatterns return the Map's values, applyPattern the object it updated, so
\* the object assigned to is the Map's own
mutateReturned_file(i) ==
  /\ FileInUse
  /\ i \in 1..Len(ReturnedPatterns)
  /\ patterns' = MapSet(patterns, [ReturnedPatterns[i] EXCEPT !.name = CallerName])
  /\ last' = Call("mutateReturned", ReturnedPatterns[i].id, FALSE, <<>>, "",
                  MapGet(patterns', ReturnedPatterns[i].id))
  /\ UNCHANGED << backend, envVars, instance, now, nOps, episodes, patternsFile,
                  episodesFile, pgVars >>

\* The caller assigns to a field of a Pattern object that patternStorePostgres.ts
\* returned: rowToPattern builds a new object for every row it reads
mutateReturned_pg(i) ==
  /\ PgInUse
  /\ i \in 1..Len(ReturnedPatterns)
  /\ last' = Call("mutateReturned", ReturnedPatterns[i].id, FALSE, <<>>, "",
                  << [ReturnedPatterns[i] EXCEPT !.name = CallerName] >>)
  /\ UNCHANGED << backend, envVars, instance, now, nOps, fileVars, pgVars >>

NextCaller ==
  \/ Next
  \/ \E i \in 1..2 : mutateReturned_file(i)
  \/ \E i \in 1..2 : mutateReturned_pg(i)

SpecCaller == Init /\ [][NextCaller]_vars

\* ---------------------------------------------------------------- store_pattern_tool.rb
\* The categories, patterns and append flags callers pass to StorePatternTool.call
CategoryInputs == {"webhooks", "webhooks.md", "caching", "example"}
PatternTextInputs == {"# Additional Content\nSecond section", "# Retry ---"}
\* What a pattern file holds before the tool is called, when it exists
InitialContent == "# Initial Content\nFirst section"

\* String#end_with?
EndWith(s, t) == Len(s) >= Len(t) /\ SubSeq(s, Len(s) - Len(t) + 1, Len(s)) = t

\* filename = category.end_with?(".md") ? category : "#{category}.md"
Filename(category) == IF EndWith(category, ".md") THEN category ELSE category \o ".md"

\* A variant of WrittenContent that always replaces the file
WrittenContent_replacing(file, pattern, append) == pattern
\* The string File.write is given: "#{existing}\n\n---\n\n#{pattern}" when append
\* is set and the file exists, the pattern otherwise
WrittenContent(file, pattern, append) ==
  IF append /\ file.exists THEN file.data \o "\n\n---\n\n" \o pattern ELSE pattern

\* ~/.shelf/patterns before the first call: each file is there or not
InitShelf ==
  /\ backend = "shelf"
  /\ instance = "none"
  /\ now = 0
  /\ nOps = 0
  /\ patterns = <<>>
  /\ episodes = <<>>
  /\ patternsFile = AbsentFile
  /\ episodesFile = AbsentFile
  /\ patternsTable = {}
  /\ episodesTable = {}
  /\ storage = "ok"
  /\ inFlight = {}
  /\ started = <<>>
  /\ patternFiles \in [ShelfFilenames ->
                         {NoPatternFile, [exists |-> TRUE, data |-> InitialContent]}]
  /\ last = Call("none", "", FALSE, <<>>, "", <<>>)

\* StorePatternTool.call: the file of the category is written; the commit that
\* follows reads the files and changes none. An error of File.read or File.write
\* is rescued and answered with an error response.
StorePatternTool_call(category, pattern, append) ==
  /\ backend = "shelf" /\ Issued
  /\ IF storage = "ok"
     THEN /\ patternFiles' =
               [patternFiles EXCEPT ![Filename(category)] =
                  [exists |-> TRUE, data |-> WrittenContent(@, pattern, append)]]
          /\ last' = Call("store_pattern", category, append, <<>>, pattern,
                          << "Pattern stored in " \o Filename(category) >>)
     ELSE /\ UNCHANGED patternFiles
          /\ last' = Call("store_pattern", category, append, <<>>, pattern,
                          << "Error storing pattern" >>)
  /\ UNCHANGED << backend, storage, inFlight, started, instance, now, fileVars, pgVars >>

\* The text ensure_example_pattern writes, by its first line
ExampleContent == "# Shelf MCP Usage Patterns"

\* A variant of ensure_example_pattern without "return if File.exist?"
ensure_example_pattern_overwriting(files) ==
  [files EXCEPT !["example.md"] = [exists |-> TRUE, data |-> ExampleContent]]
\* Server#ensure_example_pattern: example.md is written unless it exists
ensure_example_pattern(files) ==
  IF files["example.md"].exists
  THEN files
  ELSE [files EXCEPT !["example.md"] = [exists |-> TRUE, data |-> ExampleContent]]

\* Shelf::Server.new: mkdir_p of the patterns directory, ensure_example_pattern,
\* then the MCP server and its resources, which read the files. An error of
\* mkdir_p or File.write is raised to the caller and leaves no server.
Server_new ==
  /\ backend = "shelf" /\ storage = "ok" /\ Issued
  /\ patternFiles' = ensure_example_pattern(patternFiles)
  /\ last' = Call("Server.new", "", FALSE, <<>>, "", <<>>)
  /\ UNCHANGED << backend, storage, inFlight, started, instance, now, fileVars, pgVars >>

NextShelf ==
  \/ MayIssue /\ \E category \in CategoryInputs, pattern \in PatternTextInputs,
                     append \in BOOLEAN : StorePatternTool_call(category, pattern, append)
  \/ MayIssue /\ Server_new

SpecShelf == InitShelf /\ [][NextShelf]_vars

\* ---------------------------------------------------------------- repeated ids
\* An id list that names one episode twice, as a caller of shelf_extract_pattern
\* may pass it
RepeatedIdListInputs == { <<"ep-debug-1", "ep-debug-1">> }

NextRepeated ==
  \/ Next
  \/ MayIssue /\ \E ids \in RepeatedIdListInputs, name \in PatternNameInputs :
                   extractPatternFromEpisodes_file(ids, name)
  \/ MayIssue /\ \E ids \in RepeatedIdListInputs, name \in PatternNameInputs :
                   extractPatternFromEpisodes_pg(ids, name)

SpecRepeated == Init /\ [][NextRepeated]_vars

\* ---------------------------------------------------------------- repeated reinforcement
\* The caller's first MaxOps reinforcePattern calls are any; from then on it
\* repeats its last call, with the same id and the same success flag
Repeats(patternId, success) ==
  (nOps >= MaxOps) => (last.id = patternId /\ last.success = success)

reinforcePattern_again(patternId, success) ==
  /\ nOps < MaxReinforcements
  /\ Repeats(patternId, success)
  /\ \/ reinforcePattern_file(patternId, success)
     \/ reinforcePattern_pg(patternId, success)

NextSaturate ==
  \E id \in ReinforceIdInputs, success \in BOOLEAN : reinforcePattern_again(id, success)

\* The store after PatternStore.create() on fresh storage, and a caller that
\* goes on calling reinforcePattern
SpecSaturate == InitOverlap /\ [][NextSaturate]_vars /\ WF_vars(NextSaturate)

\* ---------------------------------------------------------------- index.ts
\* `ep-${Date.now()}`: the id the tool gives the episode it saves at time t
EpisodeIdAt(t) == "ep-" \o ToString(t)

\* The tool shelf_save_episode, called with the context, actions, outcome and
\* patternIds of input: the episode gets its id and its timestamp from the
\* clock and is saved in the server's store
shelf_save_episode(input) ==
  saveEpisode_file([input EXCEPT !.id = EpisodeIdAt(now), !.timestamp = now])

\* The tool shelf_find_similar: the episodes findSimilarEpisodes returns
shelf_find_similar(context, limit) == findSimilarEpisodes_file(context, limit)

\* createStatelessServer obtains its store with new PatternStore(); the tools
\* are then invoked any number of times, the clock advancing or not between two
\* invocations
NextTool ==
  \/ Tick
  \/ new_file
  \/ MayIssue /\ \E input \in EpisodeInputs(0) : shelf_save_episode(input)
  \/ MayIssue /\ \E context \in SimilarInputs, limit \in LimitInputs :
                   shelf_find_similar(context, limit)

SpecTool == Init /\ [][NextTool]_vars

\* ---------------------------------------------------------------- the extractor alone
\* The episodes extractPattern is called with: those callers save, a second
\* episode of testPatternExtraction whose outcome reads as a success, one whose
\* context says a word twice, and one whose context shares one long word, the
\* sixth of the other's, with that of ep-debug-1
ExtractorEpisodes ==
  EpisodeInputs(0)
    \cup { [ id |-> "ep-debug-2", timestamp |-> 0,
             context |-> "User debugging undefined variable error",
             actions |-> <<"Request error details", "Examine variable scope",
                           "Add validation", "Verify the solution">>,
             outcome |-> "Issue fixed and understood",
             patternIds |-> <<>> ],
           [ id |-> "ep-cache-1", timestamp |-> 0,
             context |-> "Cache miss after cache flush",
             actions |-> <<"Request error details", "Warm the cache">>,
             outcome |-> "Issue fixed and understood",
             patternIds |-> <<>> ],
           [ id |-> "ep-error-1", timestamp |-> 0,
             context |-> "Same error seen twice",
             actions |-> <<"Request error details", "Examine variable scope">>,
             outcome |-> "Needs a follow-up",
             patternIds |-> <<>> ] }

\* The episode lists of at most n episodes
EpisodeLists(n) == UNION {[1..k -> ExtractorEpisodes] : k \in 0..n}

\* No store is constructed: a caller holds a list of episodes and calls the
\* extractor with it
InitExtractor ==
  /\ backend = "none"
  /\ instance = "none"
  /\ now = 0
  /\ nOps = 0
  /\ patterns = <<>>
  /\ episodes \in EpisodeLists(MaxEpisodes)
  /\ patternsFile = AbsentFile
  /\ episodesFile = AbsentFile
  /\ patternsTable = {}
  /\ episodesTable = {}
  /\ storage = "ok"
  /\ inFlight = {}
  /\ started = <<>>
  /\ patternFiles = NoPatternFiles
  /\ last = Call("none", "", FALSE, <<>>, "", <<>>)

\* extractor.extractPattern(episodes, name, problemStatement)
extractPattern_call(name) ==
  /\ backend = "none" /\ nOps = 0 /\ Issued
  /\ last' = Call("extractPattern", "", FALSE,
                  [i \in 1..Len(episodes) |-> episodes[i].id], name,
                  extractPattern(episodes, name, ProblemStatementInput, now))
  /\ UNCHANGED << backend, envVars, instance, now, fileVars, pgVars >>

NextExtractor ==
  \/ Tick
  \/ \E name \in PatternNameInputs : extractPattern_call(name)

SpecExtractor == InitExtractor /\ [][NextExtractor]_vars

\* ---------------------------------------------------------------- properties
\* 0.1 and 1.0 as confidences
Tenth == Scale \div 10
One == Scale
InRange(c) == Tenth <= c /\ c <= One
Clamped(c) == IF c < Tenth THEN Tenth ELSE IF c > One THEN One ELSE c

\* The stored pattern of an id the store holds
PatternOf(id) == CHOOSE p \in StoredPatterns : p.id = id

\* A step that is the call of one of the store's operations
CallStep(ops) == nOps' = nOps + 1 /\ last'.op \in ops

\* C1: after a reinforcePattern call on a stored pattern, whatever the success
\* values of this call and of the calls before it, the confidence c of the
\* pattern satisfies 0.1 <= c <= 1.0.
C1_ReinforcedConfidenceInRange ==
  (last.op = "reinforcePattern" /\ last.id \in StoredPatternIds)
    => InRange(PatternOf(last.id).confidence)

\* A pattern whose reinforcement has taken it to the upper limit
C1_Witness ==
  /\ last.op = "reinforcePattern" /\ last.success
  /\ last.id = "concrete-before-abstract"
  /\ last.id \in StoredPatternIds
  /\ PatternOf(last.id).confidence = One
  /\ nOps >= 3

\* C2: every stored pattern has a confidence in [0.1, 1.0], whichever of the
\* seeding, savePattern, applyPattern, reinforcePattern and
\* extractPatternFromEpisodes calls came before.
C2_StoredConfidenceInRange == \A p \in StoredPatterns : InRange(p.confidence)

\* C3: reinforcePattern(id, success) on a stored id sets the confidence to
\* clamp(old + 0.05) when success is true and to clamp(old - 0.02) when it is
\* false, with clamp(x) = max(0.1, min(1.0, x)).
C3_ReinforceStep ==
  [][\A id \in StoredPatternIds :
       (CallStep({"reinforcePattern"}) /\ last'.id = id)
         => PatternOf(id).confidence' =
              Clamped(PatternOf(id).confidence
                        + (IF last'.success THEN Scale \div 20 ELSE 0 - Scale \div 50))]_vars

\* The pattern seeded at 0.85 stands at 0.88 after a reinforcement with false:
\* it was reinforced with true and then with false
C3_Witness ==
  /\ last.op = "reinforcePattern" /\ ~last.success
  /\ last.id = "progressive-disclosure"
  /\ last.id \in StoredPatternIds
  /\ PatternOf(last.id).confidence = 88 * (Scale \div 100)
  /\ nOps = 2

\* C4: applyPattern(id) on a stored id adds exactly 1 to usageCount, sets
\* lastUsedAt to a time that is not before the previous lastUsedAt, and
\* returns the pattern as it is stored after the call.
C4_ApplyStep ==
  [][\A id \in StoredPatternIds :
       (CallStep({"applyPattern"}) /\ last'.id = id)
         => /\ PatternOf(id).usageCount' = PatternOf(id).usageCount + 1
            /\ PatternOf(id).lastUsedAt' # NoDate
            /\ PatternOf(id).lastUsedAt = NoDate
                 \/ PatternOf(id).lastUsedAt' >= PatternOf(id).lastUsedAt
            /\ last'.ret = <<PatternOf(id)'>>]_vars

\* A pattern applied twice, the second time later than the first
C4_Witness ==
  /\ last.op = "applyPattern"
  /\ Len(last.ret) = 1
  /\ last.ret[1].usageCount = 2
  /\ last.ret[1].lastUsedAt > last.ret[1].createdAt

\* C5: applyPattern and reinforcePattern with an id the store does not hold
\* raise no error, change no pattern, no episode and nothing in durable
\* storage, and leave the id absent; applyPattern returns the absent result.
C5_UnknownIdStep ==
  [][(CallStep({"applyPattern", "reinforcePattern"}) /\ last'.id \notin StoredPatternIds)
       => /\ UNCHANGED << patterns, episodes, patternsFile, episodesFile,
                          patternsTable, episodesTable >>
          /\ last'.ret = <<>>
          /\ last'.id \notin StoredPatternIds']_vars

\* A call with an unknown id on a store that holds patterns
C5_Witness ==
  /\ last.op \in {"applyPattern", "reinforcePattern"}
  /\ last.id \notin StoredPatternIds
  /\ last.ret = <<>>
  /\ Cardinality(StoredPatternIds) >= 2

\* C6: usageCount is never negative, and no savePattern, applyPattern,
\* reinforcePattern or extractPatternFromEpisodes call makes the usageCount of
\* a stored id smaller.
C6_UsageCountMonotone ==
  [][\A id \in StoredPatternIds :
       CallStep({"savePattern", "applyPattern", "reinforcePattern",
                 "extractPatternFromEpisodes"})
         => /\ id \in StoredPatternIds'
            /\ PatternOf(id).usageCount >= 0
            /\ PatternOf(id).usageCount' >= PatternOf(id).usageCount]_vars

\* C7: once an id is stored, no call of an operation of the store changes its
\* createdAt, in either backend.
C7_CreatedAtKept ==
  [][\A id \in StoredPatternIds :
       (nOps' = nOps + 1)
         => /\ id \in StoredPatternIds'
            /\ PatternOf(id).createdAt' = PatternOf(id).createdAt]_vars

\* C8: no call of an operation on a store instance removes a record: the ids
\* of the stored patterns and of the stored episodes only grow.
C8_NoRecordRemoved ==
  [][(nOps' = nOps + 1)
       => /\ StoredPatternIds \subseteq StoredPatternIds'
          /\ StoredEpisodeIds \subseteq StoredEpisodeIds']_vars

\* An extraction has added a pattern to a store that holds the seeds and
\* episodes
C8_Witness ==
  /\ last.op = "extractPatternFromEpisodes"
  /\ Len(last.ret) = 1
  /\ Cardinality(StoredPatternIds) >= 3
  /\ Cardinality(StoredEpisodeIds) >= 2

\* C9: initialisation of a store whose storage holds no pattern leaves exactly
\* the two seed patterns stored; initialisation of a store whose storage holds
\* patterns adds no pattern and changes no field of a stored pattern.
C9_SeedingStep ==
  [][(last'.op = "create" /\ now' = now)
       => LET before == DurablePatterns
          IN  IF before = {}
              THEN /\ StoredPatternIds' = {"progressive-disclosure", "concrete-before-abstract"}
                   /\ Cardinality(StoredPatterns') = 2
                   /\ DurablePatterns' = StoredPatterns'
              ELSE /\ StoredPatterns' = before
                   /\ UNCHANGED << patternsFile, patternsTable >>]_vars

\* An initialisation of a store that held the seeds, one of them reinforced,
\* and a third pattern
C9_Witness ==
  /\ last.op = "create"
  /\ StoredPatternIds =
       {"progressive-disclosure", "concrete-before-abstract", "checkpoint-proceed"}
  /\ PatternOf("progressive-disclosure").confidence = 90 * (Scale \div 100)

\* C10: a getAllPatterns call that is the first call issued to the store, before
\* any save, returns at least the two seed patterns, whichever way the
\* instance was constructed.
C10_SeedsListed ==
  (last.op = "getAllPatterns" /\ nOps = 1)
    => {"progressive-disclosure", "concrete-before-abstract"}
         \subseteq {last.ret[i].id : i \in 1..Len(last.ret)}

\* C11: getAllPatterns returns every stored pattern, each once, in an order of
\* non-increasing confidence, in both backends.
C11_AllPatternsByConfidence ==
  (last.op = "getAllPatterns")
    => /\ Range(last.ret) = StoredPatterns
       /\ Len(last.ret) = Cardinality(StoredPatterns)
       /\ \A i, j \in 1..Len(last.ret) :
            i < j => last.ret[i].confidence >= last.ret[j].confidence

\* C12: savePattern(p) followed at once by getPattern(p.id) returns a pattern
\* equal to p in every field, whether or not p.id was stored before.
C12_RoundTrip ==
  [][CallStep({"savePattern"})
       => LET p == newPattern(now)
          IN  (IF backend = "file"
               THEN MapGet(patterns', p.id)
               ELSE SelectPattern(patternsTable', p.id)) = <<p>>]_vars

\* The relevance C13 gives pattern p for query q, in 1/(10 * Scale)
C13_Relevance(p, q) ==
  LET ql == ToLowerCase(q)
      tags == Cardinality({i \in 1..Len(p.context) : Includes(ql, p.context[i])})
      name == IF Includes(ql, ToLowerCase(p.name)) THEN 2 ELSE 0
      problem == IF \/ Includes(ToLowerCase(p.problem), ql)
                    \/ Includes(ql, ToLowerCase(p.problem))
                 THEN 2 ELSE 0
      r == p.confidence * (3 * tags + name + problem)
  IN  IF r > 10 * One THEN 10 * One ELSE r

C14_ExactContextFirst ==
  (last.op = "findSimilarEpisodes")
    => \A e \in StoredEpisodes :
         (e.context = last.name) => (Len(last.ret) >= 1 /\ last.ret[1] = e)

\* The number of the ids of a list that are ids of stored episodes
ResolvedCount(ids) == Cardinality({i \in 1..Len(ids) : ids[i] \in StoredEpisodeIds})

\* C15: extractPatternFromEpisodes with fewer than 2 ids of stored episodes
\* returns the absent result, raises no error and changes no stored pattern or
\* episode; extractPattern returns the absent result for 0 episodes and for 1.
C15_TooFewEpisodes ==
  /\ [][(nOps' = nOps + 1 /\ last'.ids # <<>> /\ ResolvedCount(last'.ids) < 2)
          => /\ last'.op = "extractPatternFromEpisodes"
             /\ last'.ret = <<>>
             /\ UNCHANGED << patterns, episodes, patternsFile, episodesFile,
                             patternsTable, episodesTable >>]_vars
  /\ [](\A e \in EpisodeInputs(0), name \in PatternNameInputs :
          /\ extractPattern(<<>>, name, ProblemStatementInput, now) = <<>>
          /\ extractPattern(<<e>>, name, ProblemStatementInput, now) = <<>>)

\* An extraction from two ids of which one is the id of a stored episode
C15_Witness ==
  /\ last.op = "extractPatternFromEpisodes"
  /\ last.ids = <<"ep-debug-1", "no-such-episode">>
  /\ "ep-debug-1" \in StoredEpisodeIds
  /\ last.ret = <<>>
  /\ Cardinality(StoredPatternIds) >= 2

\* The episode of ExtractorEpisodes of an id
EpisodeOf(id) == CHOOSE e \in ExtractorEpisodes : e.id = id

\* C16: the pattern extractPattern makes of n >= 2 episodes, s of them with an
\* outcome categorized success, has confidence min(0.9, s/n) and usageCount 0;
\* of 2 episodes that are both categorized success it has confidence 0.9.
C16_ExtractedConfidence ==
  (last.op = "extractPattern" /\ Len(last.ids) >= 2)
    => LET n == Len(last.ids)
           s == Cardinality({i \in 1..n :
                               categorizeOutcome(EpisodeOf(last.ids[i]).outcome) = "success"})
           rate == (s * Scale) \div n
       IN  /\ Len(last.ret) = 1
           /\ last.ret[1].confidence = (IF rate > 9 * Tenth THEN 9 * Tenth ELSE rate)
           /\ last.ret[1].usageCount = 0
           /\ (n = 2 /\ s = 2) => last.ret[1].confidence = 9 * Tenth

\* A pattern made of two episodes whose outcomes both read as a success
C16_Witness ==
  /\ last.op = "extractPattern"
  /\ last.ids = <<"ep-debug-1", "ep-debug-2">>
  /\ Len(last.ret) = 1
  /\ last.ret[1].confidence = 9 * Tenth

\* C17: a savePattern, saveEpisode, applyPattern or reinforcePattern call that
\* has to write while durable storage fails, and an initialisation while it
\* fails, end with an error for the caller and not normally.
C17_FailureReported ==
  [][(storage = "failing" /\ last' # last)
       => /\ last'.op # "create"
          /\ last'.op \notin {"savePattern", "saveEpisode"}
          /\ (last'.op \in {"applyPattern", "reinforcePattern"})
               => last'.id \notin StoredPatternIds]_vars

\* The calls started on pattern id, in order
StartedOn(id) == SelectSeq(started, LAMBDA c : c.id = id)
\* The number of applyPattern calls among calls
AppliedCount(calls) == Len(SelectSeq(calls, LAMBDA c : c.op = "applyPattern"))
\* The confidence after the reinforcePattern calls among calls, from confidence c
RECURSIVE ReinforcedConfidence(_, _)
ReinforcedConfidence(c, calls) ==
  IF Len(calls) = 0 THEN c
  ELSE ReinforcedConfidence(
         IF Head(calls).op = "reinforcePattern"
         THEN Clamped(c + (IF Head(calls).success THEN Scale \div 20 ELSE 0 - Scale \div 50))
         ELSE c,
         Tail(calls))
\* Every pattern of set stored holds every update of the calls started on it
HoldsEveryUpdate(stored) ==
  /\ {p.id : p \in stored} = {SamplePatterns(0)[i].id : i \in 1..2}
  /\ \A i \in 1..2 : \A p \in stored :
       (p.id = SamplePatterns(0)[i].id)
         => /\ p.usageCount = SamplePatterns(0)[i].usageCount + AppliedCount(StartedOn(p.id))
            /\ p.confidence =
                 ReinforcedConfidence(SamplePatterns(0)[i].confidence, StartedOn(p.id))

\* C18 (as stated): once the overlapping applyPattern and reinforcePattern calls
\* have all completed, durable storage holds, for each pattern, a usageCount
\* higher by the number of applyPattern calls on it and the confidence that all
\* the reinforcePattern calls on it give.
C18_NoLostUpdate == (inFlight = {}) => HoldsEveryUpdate(DurablePatterns)

\* C18 (amended): at every moment the records the store answers from (the rows
\* of the Postgres store, the Map of the file-backed store) hold every update of
\* the calls started; in the Postgres store these are the durable records.
C18_StoredHoldsEveryUpdate ==
  /\ HoldsEveryUpdate(StoredPatterns)
  /\ (backend = "pg") => HoldsEveryUpdate(DurablePatterns)

\* Two applyPattern calls and a reinforcePattern call on one pattern have
\* overlapped and have all completed
C18_Witness ==
  /\ inFlight = {}
  /\ \E id \in StoredPatternIds :
       /\ AppliedCount(StartedOn(id)) = 2
       /\ Len(StartedOn(id)) = 3

\* C19: a caller's assignment to a Pattern object it received changes neither
\* the patterns the store holds nor its files, and durable storage never comes
\* to hold what the caller assigned.
C19_ReturnedAreCopies ==
  [][/\ (last'.op = "mutateReturned")
          => /\ StoredPatterns' = StoredPatterns
             /\ UNCHANGED << patternsFile, patternsTable >>
     /\ \A p \in DurablePatterns' : p.name # CallerName]_vars

\* The file that category names
FileOf(category) ==
  IF Len(category) >= 3 /\ SubSeq(category, Len(category) - 2, Len(category)) = ".md"
  THEN category ELSE category \o ".md"

\* C20: a StorePatternTool.call with append set, on a category whose file
\* exists, keeps the file's content as a prefix of the new content, which ends
\* with the given pattern after a separator that holds "---"; a call with append
\* unset, or on a category whose file does not exist, makes the file's content
\* the given pattern. No other file changes.
C20_StoreStep ==
  [][CallStep({"store_pattern"})
       => LET f == FileOf(last'.id)
              before == patternFiles[f]
              after == patternFiles'[f]
              pattern == last'.name
          IN  /\ after.exists
              /\ IF last'.success /\ before.exists
                 THEN /\ Len(after.data) > Len(before.data) + Len(pattern)
                      /\ SubSeq(after.data, 1, Len(before.data)) = before.data
                      /\ SubSeq(after.data, Len(after.data) - Len(pattern) + 1,
                                Len(after.data)) = pattern
                      /\ Includes(SubSeq(after.data, Len(before.data) + 1,
                                         Len(after.data) - Len(pattern)), "---")
                 ELSE after.data = pattern
              /\ \A g \in ShelfFilenames \ {f} : patternFiles'[g] = patternFiles[g]]_vars

\* An appending call has been made on a file that existed, and a replacing call
\* on a file that existed
C20_Witness ==
  /\ nOps = 2
  /\ last.op = "store_pattern" /\ ~last.success
  /\ patternFiles[FileOf(last.id)].data = last.name
  /\ \E g \in ShelfFilenames :
       /\ g # FileOf(last.id)
       /\ Includes(patternFiles[g].data, InitialContent \o "\n\n---\n\n")

\* C21: after a construction of Shelf::Server example.md exists, and a
\* construction that finds example.md leaves every pattern file, example.md
\* included, as it was.
C21_ServerStep ==
  [][CallStep({"Server.new"})
       => /\ patternFiles'["example.md"].exists
          /\ patternFiles["example.md"].exists => patternFiles' = patternFiles
          /\ \A g \in ShelfFilenames \ {"example.md"} : patternFiles'[g] = patternFiles[g]]_vars

\* A server has been constructed after example.md was given other content
C21_Witness ==
  /\ last.op = "Server.new"
  /\ nOps >= 2
  /\ patternFiles["example.md"].data \in PatternTextInputs

\* C22: what findSimilarEpisodes returns, in either store, is what the
\* file-backed computation (score 0.5 for containment plus 0.1 per shared token,
\* the top limit by score, those with score > 0) gives for the stored episodes
\* in some order of insertion: the two stores answer alike.
C22_BackendsAgree ==
  (last.op = "findSimilarEpisodes")
    => \E limit \in LimitInputs, inserted \in Orderings(StoredEpisodes) :
         last.ret = findSimilarEpisodes(inserted, last.name, limit)

\* The number of episodes of eps whose lower-cased context has the token tag
DocumentFrequency(eps, tag) ==
  Cardinality({i \in 1..Len(eps) : tag \in Range(SplitWhitespace(ToLowerCase(eps[i].context)))})

\* C23: the context of an extracted pattern has between 1 and 5 tags, and each
\* tag other than the default "general" is longer than 3 characters and is a
\* token of the lower-cased context of at least half of the episodes given.
C23_ContextTags ==
  (last.op = "extractPattern" /\ Len(last.ret) = 1)
    => LET context == last.ret[1].context
       IN  /\ Len(context) \in 1..5
           /\ \A i \in 1..Len(context) :
                \/ context = <<"general">>
                \/ /\ Len(context[i]) > 3
                   /\ 2 * DocumentFrequency(episodes, context[i]) >= Len(episodes)

\* The tokens of length > 3 of the lower-cased context of episode e, in order
LongTokens(e) == SelectSeq(SplitWhitespace(ToLowerCase(e.context)), LAMBDA w : Len(w) > 3)
\* The tokens of length > 3 two episodes share
SharedTokens(e1, e2) == Range(LongTokens(e1)) \cap Range(LongTokens(e2))
\* The distinct tokens of length > 3 of two episodes, in the order they are met
TokensInOrder(e1, e2) == FirstOccurrences(LongTokens(e1) \o LongTokens(e2))

TagsTouch(o, p) ==
  \E t \in Range(o.context), u \in Range(p.context) : Includes(t, u) \/ Includes(u, t)

\* C25: when extractPatternFromEpisodes returns a pattern P, P is stored with
\* the relations returned, and these are one leads_to relation of strength 0.5
\* for each pattern stored at the call, other than P, that has a context tag
\* containing or contained in a tag of P, and no other relation.
C25_RelationsStep ==
  [][(CallStep({"extractPatternFromEpisodes"}) /\ Len(last'.ret) = 1)
       => LET P == last'.ret[1]
              related == {o.id : o \in {o \in StoredPatterns : o.id # P.id /\ TagsTouch(o, P)}}
          IN  /\ \E q \in StoredPatterns' : q.id = P.id /\ q.relations = P.relations
              /\ Len(P.relations) = Cardinality(related)
              /\ {P.relations[i].patternId : i \in 1..Len(P.relations)} = related
              /\ \A i \in 1..Len(P.relations) :
                   /\ P.relations[i].type = "leads_to"
                   /\ P.relations[i].strength = Scale \div 2
                   /\ P.relations[i].patternId # P.id
                   /\ P.relations[i].patternId \in StoredPatternIds]_vars

\* A pattern has been extracted and stored with relations to two other patterns
C25_Witness ==
  /\ last.op = "extractPatternFromEpisodes" /\ Len(last.ret) = 1
  /\ Len(last.ret[1].relations) = 2
  /\ last.ret[1].id \in StoredPatternIds

\* C26: an applyPattern or reinforcePattern call leaves every episode and
\* every pattern of another id as it was, adds and removes no pattern, and
\* leaves the pattern of its id as it was but for usageCount and lastUsedAt
\* (applyPattern) or confidence (reinforcePattern).
C26_FrameStep ==
  [][CallStep({"applyPattern", "reinforcePattern"})
       => /\ StoredEpisodes' = StoredEpisodes
          /\ UNCHANGED << episodes, episodesFile, episodesTable >>
          /\ {p.id : p \in StoredPatterns'} = StoredPatternIds
          /\ \A p \in StoredPatterns :
               IF p.id # last'.id THEN p \in StoredPatterns'
               ELSE \E q \in StoredPatterns' :
                      IF last'.op = "applyPattern"
                      THEN [q EXCEPT !.usageCount = p.usageCount,
                                     !.lastUsedAt = p.lastUsedAt] = p
                      ELSE [q EXCEPT !.confidence = p.confidence] = p]_vars

\* A stored pattern has been applied, or reinforced, while another pattern and
\* an episode were stored
C26_Witness ==
  /\ last.op \in {"applyPattern", "reinforcePattern"}
  /\ last.id \in StoredPatternIds
  /\ Cardinality(StoredPatterns) >= 2
  /\ StoredEpisodes # {}

\* The ids of the records a snapshot file holds
IdsInFile(file) == {file.data[i].id : i \in 1..Len(file.data)}

\* C27: in the file-backed store, every pattern and episode that patterns.json
\* and episodes.json hold before a savePattern, saveEpisode, applyPattern,
\* reinforcePattern or extractPatternFromEpisodes call is still in them after
\* it, however the store instance was constructed.
C27_SnapshotKeepsRecords ==
  [][(backend = "file"
        /\ CallStep({"savePattern", "saveEpisode", "applyPattern", "reinforcePattern",
                     "extractPatternFromEpisodes"}))
       => /\ IdsInFile(patternsFile) \subseteq IdsInFile(patternsFile')
          /\ IdsInFile(episodesFile) \subseteq IdsInFile(episodesFile')]_vars

\* The number of distinct stored episodes the ids of a list name
DistinctResolved(ids) == Cardinality(Range(ids) \cap StoredEpisodeIds)

\* C28: an extractPatternFromEpisodes call whose id list names fewer than two
\* distinct stored episodes returns the absent result and stores no pattern, in
\* either store.
C28_DistinctEpisodesNeeded ==
  [][(CallStep({"extractPatternFromEpisodes"}) /\ DistinctResolved(last'.ids) < 2)
       => /\ last'.ret = <<>>
          /\ UNCHANGED << patterns, patternsFile, patternsTable >>]_vars

\* The confidence of the stored pattern id
ConfidenceOf(id) == PatternOf(id).confidence

\* C29: when a caller goes on reinforcing a stored pattern with success, its
\* confidence comes to be 1.0, and a further success leaves it at 1.0; when it
\* goes on reinforcing it with failure, its confidence comes to be 0.1, and a
\* further failure leaves it at 0.1.
C29_Saturates ==
  /\ \A id \in {"progressive-disclosure", "concrete-before-abstract"} :
       /\ (nOps >= MaxOps /\ last.id = id /\ last.success) ~> (ConfidenceOf(id) = One)
       /\ (nOps >= MaxOps /\ last.id = id /\ ~last.success) ~> (ConfidenceOf(id) = Tenth)
  /\ [][\A id \in StoredPatternIds :
          (CallStep({"reinforcePattern"}) /\ last'.id = id)
            => /\ (last'.success /\ ConfidenceOf(id) = One) => ConfidenceOf(id)' = One
               /\ (~last'.success /\ ConfidenceOf(id) = Tenth) => ConfidenceOf(id)' = Tenth]_vars

\* A pattern has been brought down to 0.1 by repeated failures and reinforced
\* with failure again, as often as the caller calls
C29_Witness ==
  /\ last.op = "reinforcePattern" /\ ~last.success
  /\ last.id = "progressive-disclosure"
  /\ ConfidenceOf("progressive-disclosure") = Tenth
  /\ nOps = MaxReinforcements

\* C30: every invocation of shelf_save_episode leaves the store with one
\* episode more than before, and with every episode it held.
C30_EpisodeAdded ==
  [][CallStep({"saveEpisode"})
       => /\ StoredEpisodes \subseteq StoredEpisodes'
          /\ Cardinality(StoredEpisodes') = Cardinality(StoredEpisodes) + 1]_vars

====
